---- MODULE Spec2Model ----
\* Verification model of the AIS 60:1 tools screen: the numeric parser toNum,
\* the formula catalogue CALCS, and the input value store of AISToolsScreen
\* with its setField / clear-all handlers and its render pass.
EXTENDS Integers, Sequences, FiniteSets, TLC

VARIABLES
    values,    \* AISToolsScreen: the input value store (key -> typed string)
    out,       \* AISToolsScreen: outputs computed by the last render pass
    pending,   \* AISToolsScreen: a state update is scheduled, render not yet run
    arg,       \* toNum: the raw argument v
    fb,        \* toNum: the fallback argument
    parsed,    \* toNum: the value returned (NotYet before the call)
    calcId,    \* compute: the formula being evaluated
    inputs,    \* compute: the store handed to the formula
    result,    \* compute: the mapping returned (NotYet before the call)
    shown,     \* render: the text of each output's pill
    phase      \* which step of the current scenario has run

vars == <<values, out, pending, arg, fb, parsed, calcId, inputs, result, shown,
          phase>>

storeVars == <<values, out, pending>>
parseVars == <<arg, fb, parsed>>
calcVars  == <<calcId, inputs, result>>

----------------------------------------------------------------------------
\* Bounds of the model

\* significant decimal digits kept by the number model
Precision == 3
\* longest typed string enumerated exhaustively for the parser
MaxLen == 3
\* most store keys holding a user-typed value at once
MaxFilled == 1
\* largest decimal exponent of an input that counts as "bounded"
MaxInputExp == 6

----------------------------------------------------------------------------
\* JavaScript numbers: decimal floating point, Precision significant digits,
\* value m * 10^e, with NaN, +Infinity, -Infinity; null and a raised exception
\* are carried as further kinds so that every expression has a value.

\* the largest double is about 1.797 * 10^308, the smallest about 10^-324
MaxExp10 == 308
MaxTop   == 1797
MinExp10 == 0 - 324

\* a const binding: e is evaluated once and F applied to its value
Bind(e, F(_)) == CHOOSE r \in {F(x) : x \in {e}} : TRUE
Bind2(e1, e2, F(_, _)) == CHOOSE r \in {F(x, y) : x \in {e1}, y \in {e2}} : TRUE

Zero   == [kind |-> "num",   m |-> 0, e |-> 0]
NaN    == [kind |-> "nan",   m |-> 0, e |-> 0]
PInf   == [kind |-> "pinf",  m |-> 0, e |-> 0]
NInf   == [kind |-> "ninf",  m |-> 0, e |-> 0]
Null   == [kind |-> "null",  m |-> 0, e |-> 0]
Thrown == [kind |-> "throw", m |-> 0, e |-> 0]

Abs(x) == IF x < 0 THEN 0 - x ELSE x
Sgn(x) == IF x < 0 THEN 0 - 1 ELSE IF x > 0 THEN 1 ELSE 0

RECURSIVE NumDigits(_)
NumDigits(n) == IF n < 10 THEN 1 ELSE 1 + NumDigits(n \div 10)

RECURSIVE StripZeros(_, _)
StripZeros(m, e) ==
    IF m # 0 /\ m % 10 = 0 THEN StripZeros(m \div 10, e + 1) ELSE <<m, e>>

\* the number nearest to m * 10^e that the number model can hold
\* m rounded to Precision digits and stripped of trailing zeros, as <<m, e>>
RoundStrip(a, e) ==
    Bind(NumDigits(a), LAMBDA d :
        IF d > Precision
        THEN StripZeros((a + ((10 ^ (d - Precision)) \div 2)) \div (10 ^ (d - Precision)),
                        e + (d - Precision))
        ELSE StripZeros(a, e))

MkNum(m0, e0) ==
    Bind2(m0, e0, LAMBDA m, e :
        IF m = 0 THEN Zero
        ELSE Bind(RoundStrip(Abs(m), e), LAMBDA st :
            Bind(NumDigits(st[1]), LAMBDA nd :
                IF \/ st[2] + nd - 1 > MaxExp10
                   \/ (st[2] + nd - 1 = MaxExp10 /\ st[1] * (10 ^ (4 - nd)) > MaxTop)
                THEN (IF m > 0 THEN PInf ELSE NInf)
                ELSE IF st[2] + nd - 1 < MinExp10 THEN Zero
                ELSE [kind |-> "num", m |-> Sgn(m) * st[1], e |-> st[2]])))

\* the mantissa padded to Precision digits, as <<m, e>>
Full(a) ==
    Bind(NumDigits(Abs(a.m)), LAMBDA d :
        IF d >= Precision THEN <<a.m, a.e>>
        ELSE <<a.m * (10 ^ (Precision - d)), a.e - (Precision - d)>>)

\* ToNumber: null converts to 0
Coerce(a) == IF a.kind = "null" THEN Zero ELSE a

IsInf(a) == a.kind \in {"pinf", "ninf"}
SignOf(a) ==
    IF a.kind = "pinf" THEN 1 ELSE IF a.kind = "ninf" THEN 0 - 1 ELSE Sgn(a.m)
InfOfSign(s) == IF s < 0 THEN NInf ELSE PInf

\* Number.isFinite: true only of a number that is neither NaN nor infinite
IsFinite(a) == a.kind = "num"

FNeg(a0) ==
    Bind(Coerce(a0), LAMBDA a :
        IF a.kind = "throw" THEN Thrown
        ELSE IF a.kind = "nan" THEN NaN
        ELSE IF a.kind = "pinf" THEN NInf
        ELSE IF a.kind = "ninf" THEN PInf
        ELSE [kind |-> "num", m |-> 0 - a.m, e |-> a.e])

FMul(a0, b0) ==
    Bind2(Coerce(a0), Coerce(b0), LAMBDA a, b :
        IF a.kind = "throw" \/ b.kind = "throw" THEN Thrown
        ELSE IF a.kind = "nan" \/ b.kind = "nan" THEN NaN
        ELSE IF IsInf(a) \/ IsInf(b)
             THEN (IF SignOf(a) * SignOf(b) = 0 THEN NaN
                   ELSE InfOfSign(SignOf(a) * SignOf(b)))
        ELSE MkNum(a.m * b.m, a.e + b.e))

FDiv(a0, b0) ==
    Bind2(Coerce(a0), Coerce(b0), LAMBDA a, b :
        IF a.kind = "throw" \/ b.kind = "throw" THEN Thrown
        ELSE IF a.kind = "nan" \/ b.kind = "nan" THEN NaN
        ELSE IF IsInf(a)
             THEN (IF IsInf(b) THEN NaN
                   ELSE InfOfSign(SignOf(a) * (IF SignOf(b) < 0 THEN 0 - 1 ELSE 1)))
        ELSE IF IsInf(b) THEN Zero
        ELSE IF b.m = 0
             THEN (IF a.m = 0 THEN NaN ELSE InfOfSign(SignOf(a)))
        ELSE IF a.m = 0 THEN Zero
        ELSE Bind2(Full([a EXCEPT !.m = Abs(a.m)]), Abs(b.m), LAMBDA fa, bm :
                 LET num == fa[1] * (10 ^ Precision)
                     q   == num \div bm
                     qr  == IF 2 * (num % bm) >= bm THEN q + 1 ELSE q
                 IN  MkNum(SignOf(a) * SignOf(b) * qr, fa[2] - Precision - b.e)))

FAdd(a0, b0) ==
    Bind2(Coerce(a0), Coerce(b0), LAMBDA a, b :
        IF a.kind = "throw" \/ b.kind = "throw" THEN Thrown
        ELSE IF a.kind = "nan" \/ b.kind = "nan" THEN NaN
        ELSE IF IsInf(a) /\ IsInf(b) THEN (IF a.kind = b.kind THEN a ELSE NaN)
        ELSE IF IsInf(a) THEN a
        ELSE IF IsInf(b) THEN b
        ELSE IF a.m = 0 THEN b
        ELSE IF b.m = 0 THEN a
        ELSE Bind2(Full(a), Full(b), LAMBDA fa, fb2 :
                 LET hi == IF fa[2] >= fb2[2] THEN fa ELSE fb2
                     lo == IF fa[2] >= fb2[2] THEN fb2 ELSE fa
                     d  == hi[2] - lo[2]
                 IN  IF d > Precision + 1 THEN MkNum(hi[1], hi[2])
                     ELSE MkNum(hi[1] * (10 ^ d) + lo[1], lo[2])))

FSub(a0, b0) == Bind2(a0, b0, LAMBDA a, b : FAdd(a, FNeg(b)))

\* a < b on numbers (false when either is NaN)
FLess(a0, b0) ==
    Bind2(a0, b0, LAMBDA a, b :
        /\ a.kind \in {"num", "pinf", "ninf"}
        /\ b.kind \in {"num", "pinf", "ninf"}
        /\ a # b
        /\ SignOf(FSub(a, b)) < 0)

\* Math.max of two arguments
MathMax(a0, b0) ==
    Bind2(Coerce(a0), Coerce(b0), LAMBDA a, b :
        IF a.kind = "throw" \/ b.kind = "throw" THEN Thrown
        ELSE IF a.kind = "nan" \/ b.kind = "nan" THEN NaN
        ELSE IF FLess(a, b) THEN b ELSE a)

\* Math.abs
MathAbs(a0) ==
    Bind(Coerce(a0), LAMBDA a :
        IF a.kind = "throw" THEN Thrown
        ELSE IF a.kind = "nan" THEN NaN
        ELSE IF IsInf(a) THEN PInf
        ELSE [a EXCEPT !.m = Abs(a.m)])

\* ToBoolean of a number or null: 0, NaN and null are falsy
Truthy(a) == ~(a.kind \in {"nan", "null"} \/ (a.kind = "num" /\ a.m = 0))

\* an integer literal of the source
Int2Num(n) == MkNum(n, 0)

----------------------------------------------------------------------------
\* Strings are sequences of one-character strings.

\* the value of a store key that was never set
Undefined == <<"undefined">>

Digits == {"0", "1", "2", "3", "4", "5", "6", "7", "8", "9"}
DigitVal(c) ==
    CASE c = "0" -> 0 [] c = "1" -> 1 [] c = "2" -> 2 [] c = "3" -> 3
      [] c = "4" -> 4 [] c = "5" -> 5 [] c = "6" -> 6 [] c = "7" -> 7
      [] c = "8" -> 8 [] c = "9" -> 9
DigitChar(n) ==
    CASE n = 0 -> "0" [] n = 1 -> "1" [] n = 2 -> "2" [] n = 3 -> "3"
      [] n = 4 -> "4" [] n = 5 -> "5" [] n = 6 -> "6" [] n = 7 -> "7"
      [] n = 8 -> "8" [] n = 9 -> "9"

WhiteSpace == {" "}
InfinityChars == <<"I", "n", "f", "i", "n", "i", "t", "y">>

\* String.prototype.replace(/,/g, ''): every comma removed
RECURSIVE StripCommas(_)
StripCommas(s) ==
    IF s = <<>> THEN <<>>
    ELSE IF Head(s) = "," THEN StripCommas(Tail(s))
    ELSE <<Head(s)>> \o StripCommas(Tail(s))

RECURSIVE TrimLeft(_)
TrimLeft(s) ==
    IF s # <<>> /\ Head(s) \in WhiteSpace THEN TrimLeft(Tail(s)) ELSE s

\* length of the leading run of decimal digits
RECURSIVE DigitRun(_)
DigitRun(s) ==
    IF s # <<>> /\ Head(s) \in Digits THEN 1 + DigitRun(Tail(s)) ELSE 0

StartsWith(s, p) == Len(s) >= Len(p) /\ SubSeq(s, 1, Len(p)) = p
Drop(s, n) == SubSeq(s, n + 1, Len(s))

\* a digit string as <<value of its first digits, count of digits left out>>;
\* digits beyond the ninth significant one do not fit the mantissa
RECURSIVE DigitsValue(_, _, _)
DigitsValue(ds, acc, dropped) ==
    IF ds = <<>> THEN <<acc, dropped>>
    ELSE IF acc >= 10 ^ 8 THEN DigitsValue(Tail(ds), acc, dropped + 1)
    ELSE DigitsValue(Tail(ds), acc * 10 + DigitVal(Head(ds)), dropped)

\* parseFloat: leading white space skipped, then the longest prefix that is a
\* decimal literal (sign, digits, fraction, exponent) or Infinity; NaN if none
\* the exponent part "e[+-]digits" at the head of s, 0 if there is none
ExponentOf(s) ==
    IF s = <<>> \/ ~(Head(s) \in {"e", "E"}) THEN 0
    ELSE Bind(Tail(s), LAMBDA ex :
        Bind(IF ex # <<>> /\ Head(ex) \in {"-", "+"} THEN Tail(ex) ELSE ex,
             LAMBDA exDigits :
            Bind(DigitRun(exDigits), LAMBDA ne :
                IF ne = 0 THEN 0
                ELSE (IF Head(ex) = "-" THEN 0 - 1 ELSE 1)
                     * DigitsValue(SubSeq(exDigits, 1, ne), 0, 0)[1])))

\* an unsigned decimal literal at the head of u, times sign; NaN if none
ParseDecimal(u, sign) ==
    Bind(DigitRun(u), LAMBDA ni :
        Bind(Drop(u, ni), LAMBDA afterInt :
            IF afterInt # <<>> /\ Head(afterInt) = "."
            THEN Bind(DigitRun(Tail(afterInt)), LAMBDA nf :
                    IF ni + nf = 0 THEN NaN
                    ELSE Bind(DigitsValue(SubSeq(u, 1, ni)
                                          \o SubSeq(Tail(afterInt), 1, nf), 0, 0),
                              LAMBDA mant :
                            MkNum(sign * mant[1],
                                  mant[2] + ExponentOf(Drop(Tail(afterInt), nf)) - nf)))
            ELSE IF ni = 0 THEN NaN
            ELSE Bind(DigitsValue(SubSeq(u, 1, ni), 0, 0), LAMBDA mant :
                    MkNum(sign * mant[1], mant[2] + ExponentOf(afterInt)))))

ParseFloat(s) ==
    Bind(TrimLeft(s), LAMBDA t :
        Bind2(IF t # <<>> /\ Head(t) \in {"-", "+"} THEN Tail(t) ELSE t,
              IF t # <<>> /\ Head(t) = "-" THEN 0 - 1 ELSE 1,
              LAMBDA u, sign :
            IF StartsWith(u, InfinityChars) THEN InfOfSign(sign)
            ELSE ParseDecimal(u, sign)))

\* the decimal digits of a positive integer
RECURSIVE DigitsOf(_)
DigitsOf(n) ==
    IF n < 10 THEN <<DigitChar(n)>>
    ELSE DigitsOf(n \div 10) \o <<DigitChar(n % 10)>>

RECURSIVE Zeros(_)
Zeros(n) == IF n <= 0 THEN <<>> ELSE <<"0">> \o Zeros(n - 1)

\* String(x) of a number: Number::toString, radix 10
NumberToString(a) ==
    IF a.kind = "nan" THEN <<"N", "a", "N">>
    ELSE IF a.kind = "pinf" THEN InfinityChars
    ELSE IF a.kind = "ninf" THEN <<"-">> \o InfinityChars
    ELSE IF a.kind = "null" THEN <<"n", "u", "l", "l">>
    ELSE IF a.m = 0 THEN <<"0">>
    ELSE LET ds   == DigitsOf(Abs(a.m))
             k    == Len(ds)
             n    == a.e + k
             sg   == IF a.m < 0 THEN <<"-">> ELSE <<>>
             x    == n - 1
             exps == (IF x < 0 THEN <<"-">> ELSE <<"+">>) \o DigitsOf(Abs(x))
         IN  IF k <= n /\ n <= 21 THEN sg \o ds \o Zeros(n - k)
             ELSE IF 0 < n /\ n <= 21
                  THEN sg \o SubSeq(ds, 1, n) \o <<".">> \o Drop(ds, n)
             ELSE IF 0 - 6 < n /\ n <= 0
                  THEN sg \o <<"0", ".">> \o Zeros(0 - n) \o ds
             ELSE IF k = 1 THEN sg \o ds \o <<"e">> \o exps
             ELSE sg \o <<Head(ds), ".">> \o Tail(ds) \o <<"e">> \o exps

\* String(v ?? '') of a store value: undefined becomes the empty string
StringOrEmpty(v) == IF v = Undefined THEN <<>> ELSE v

\* toNum calling v.replace without String(v ?? ''): undefined has no replace
toNumNoCoerce(v, fallback) ==
    IF v = Undefined THEN Thrown
    ELSE Bind(ParseFloat(StripCommas(v)), LAMBDA n :
            IF IsFinite(n) THEN n ELSE fallback)

\* toNum without the comma removal
toNumKeepCommas(v, fallback) ==
    Bind(ParseFloat(StringOrEmpty(v)), LAMBDA n :
        IF IsFinite(n) THEN n ELSE fallback)

\* toNum that answers 0 for an unparsable value whatever fallback was passed
toNumFallbackZero(v, fallback) ==
    Bind(ParseFloat(StripCommas(StringOrEmpty(v))), LAMBDA n :
        IF IsFinite(n) THEN n ELSE Zero)

\* toNum(v, fallback) on a raw store value
toNum(v, fallback) ==
    Bind(ParseFloat(StripCommas(StringOrEmpty(v))), LAMBDA n :
        IF IsFinite(n) THEN n ELSE fallback)

\* the default of toNum's fallback parameter
DefaultFallback == Zero

\* toNum(x) called on a value that is already a number
toNumOfNumber(x0) ==
    Bind(x0, LAMBDA x :
        IF x.kind = "throw" THEN Thrown
        ELSE toNum(NumberToString(x), DefaultFallback))

----------------------------------------------------------------------------
\* Math helpers of the screen

Pi  == MkNum(3142, 0 - 3)
Eps == MkNum(1, 0 - 9)

\* Math.tan(deg * Math.PI / 180), tabulated for |deg| = dm * 10^de:
\* <<dm, de, mantissa, exponent>>
TanTable ==
    { <<0, 0, 0, 0>>, <<1, 0 - 10, 1745, 0 - 15>>, <<2, 0, 3492, 0 - 5>>,
      <<3, 0, 5241, 0 - 5>>, <<3, 1, 5774, 0 - 4>>, <<45, 0, 1, 0>>,
      <<9, 1, 1633, 13>>, <<12, 1, 0 - 1732, 0 - 3>>,
      <<15, 1, 0 - 5774, 0 - 4>>, <<18, 1, 0 - 1225, 0 - 19>>,
      <<3, 2, 0 - 1732, 0 - 3>>, <<1, 3, 0 - 5671, 0 - 3>>,
      <<2, 3, 3640, 0 - 4>> }

\* Math.tan at phi = (deg * Math.PI) / 180; tan of an infinite angle is NaN
MathTanDeg(deg0, phi0) ==
    Bind2(deg0, phi0, LAMBDA deg, phi :
        IF phi.kind = "throw" THEN Thrown
        ELSE IF phi.kind # "num" THEN NaN
        ELSE Bind(CHOOSE r \in TanTable : r[1] = Abs(deg.m) /\ r[2] = deg.e,
                  LAMBDA row : MkNum(Sgn(deg.m) * row[3], row[4])))

\* Math.tan(0.0001)
TanSurrogate == MkNum(1, 0 - 4)

DegToRad(deg) == FDiv(FMul(deg, Pi), Int2Num(180))

ftPerNMFromDegrees(deg0) ==
    Bind(deg0, LAMBDA deg :
        FMul(MkNum(607612, 0 - 2), MathTanDeg(deg, DegToRad(deg))))

\* turnRadiusNM taking Math.tan(phi) without the 0.0001 surrogate
turnRadiusNMNoSurrogate(tasKt, bankDeg) ==
    Bind2(FMul(toNumOfNumber(tasKt), MkNum(168781, 0 - 5)), toNumOfNumber(bankDeg),
          LAMBDA Vfts, bank :
        FDiv(FDiv(FMul(Vfts, Vfts),
                  FMul(MkNum(32174, 0 - 3), MathTanDeg(bank, DegToRad(bank)))),
             MkNum(607612, 0 - 2)))

\* turnRadiusNM squaring the speed in knots, without the ft/s conversion
turnRadiusNMKnotsSquared(tasKt, bankDeg) ==
    Bind2(toNumOfNumber(tasKt), toNumOfNumber(bankDeg), LAMBDA Vkt, bank :
        Bind(DegToRad(bank), LAMBDA phi :
            FDiv(FDiv(FMul(Vkt, Vkt),
                      FMul(MkNum(32174, 0 - 3),
                           IF Truthy(phi) THEN MathTanDeg(bank, phi)
                           ELSE TanSurrogate)),
                 MkNum(607612, 0 - 2))))

turnRadiusNM(tasKt, bankDeg) ==
    Bind2(FMul(toNumOfNumber(tasKt), MkNum(168781, 0 - 5)), toNumOfNumber(bankDeg),
          LAMBDA Vfts, bank :
        Bind(DegToRad(bank), LAMBDA phi :
            LET g    == MkNum(32174, 0 - 3)
                tanv == IF phi.kind = "throw" THEN Thrown
                        ELSE IF Truthy(phi) THEN MathTanDeg(bank, phi)
                        ELSE TanSurrogate
                r_ft == FDiv(FMul(Vfts, Vfts), FMul(g, tanv))
            IN  FDiv(r_ft, MkNum(607612, 0 - 2))))

----------------------------------------------------------------------------
\* Calculator definitions

CALCS ==
    <<"gradient", "pitch", "ias2tas", "avgTas", "vvi", "turnRadius",
      "leadRadial", "leadDME", "arcDistance", "turningDistance", "loss90",
      "climbDescend", "vdp", "timeOut">>

CalcIds == {CALCS[i] : i \in 1..Len(CALCS)}

\* the declared input keys of a formula
Fields(c) ==
    CASE c = "gradient"        -> {"altitudeChangeFt", "distanceNM"}
      [] c = "pitch"           -> {"gradientPercent", "xCorrectionDeg"}
      [] c = "ias2tas"         -> {"iasKt", "pressureAltFt"}
      [] c = "avgTas"          -> {"tasLow", "tasHigh"}
      [] c = "vvi"             -> {"gradientFtPerNM", "tasNMmin", "tasNMhr"}
      [] c = "turnRadius"      -> {"tasKt", "bankDeg"}
      [] c = "leadRadial"      -> {"rNM", "arcingDME", "interceptRadial"}
      [] c = "leadDME"         -> {"arcingDME", "rNM"}
      [] c = "arcDistance"     -> {"startRadial", "endRadial", "arcingDME"}
      [] c = "turningDistance" -> {"degrees", "rNM"}
      [] c = "loss90"          -> {"rNM"}
      [] c = "climbDescend"    -> {"altitudeToClimbFt", "climbGradientFtPerNM"}
      [] c = "vdp"             -> {"hatFt", "slopeDeg"}
      [] c = "timeOut"         -> {"groundSpeedKt", "customMinutes"}

\* the declared output keys of a formula
Outputs(c) ==
    CASE c = "gradient"        -> {"gradientFtPerNM"}
      [] c = "pitch"           -> {"pitchDeg"}
      [] c = "ias2tas"         -> {"ktas", "tasNMmin"}
      [] c = "avgTas"          -> {"avgTasKt", "avgTasNMmin"}
      [] c = "vvi"             -> {"vviFPM"}
      [] c = "turnRadius"      -> {"rNM"}
      [] c = "leadRadial"      -> {"leadDegMinus", "leadDegPlus"}
      [] c = "leadDME"         -> {"inbound", "outbound"}
      [] c = "arcDistance"     -> {"arcNM"}
      [] c = "turningDistance" -> {"turnDistNM"}
      [] c = "loss90"          -> {"lossNM"}
      [] c = "climbDescend"    -> {"nm"}
      [] c = "vdp"             -> {"vdpNM", "ftPerNM"}
      [] c = "timeOut"         -> {"dist3min", "dist2min", "dist1min", "distCustom"}

Keys == UNION {Fields(c) : c \in CalcIds}

\* the default string a field declares
FieldDefault(k) == IF k = "bankDeg" THEN <<"3", "0">> ELSE <<>>

\* v.key: undefined when the object has no such property
Get(v, k) == IF k \in DOMAIN v THEN v[k] ELSE Undefined

\* toNum(v.key) with the default fallback
N(v, k) == toNum(Get(v, k), DefaultFallback)

\* an exception raised while evaluating ps leaves no output mapping
Guarded(ps, f) ==
    IF \E p \in ps : p.kind = "throw" THEN [k \in DOMAIN f |-> Thrown] ELSE f

\* gradient dividing by the distance itself, without Math.max(1e-9, .)
gradientNoGuard(v) ==
    "gradientFtPerNM" :> FDiv(N(v, "altitudeChangeFt"), N(v, "distanceNM"))

gradient(v) ==
    "gradientFtPerNM" :>
        FDiv(N(v, "altitudeChangeFt"), MathMax(Eps, N(v, "distanceNM")))

pitch(v) ==
    "pitchDeg" :>
        FAdd(FDiv(N(v, "gradientPercent"), Int2Num(100)), N(v, "xCorrectionDeg"))

ias2tas(v) ==
    Bind(FAdd(N(v, "iasKt"),
              FMul(Int2Num(5), FDiv(N(v, "pressureAltFt"), Int2Num(1000)))),
         LAMBDA ktas :
        ("ktas" :> ktas) @@ ("tasNMmin" :> FDiv(ktas, Int2Num(60))))

avgTas(v) ==
    Bind(FDiv(FAdd(N(v, "tasLow"), N(v, "tasHigh")), Int2Num(2)), LAMBDA avg :
        ("avgTasKt" :> avg) @@ ("avgTasNMmin" :> FDiv(avg, Int2Num(60))))

\* vvi taking the hourly TAS first
vviPreferHr(v) ==
    Bind(toNum(Get(v, "gradientFtPerNM"), DefaultFallback), LAMBDA grad :
        Bind2(toNum(Get(v, "tasNMmin"), Null), toNum(Get(v, "tasNMhr"), Null),
              LAMBDA tasNMmin, tasNMhr :
            Guarded({grad, tasNMmin, tasNMhr},
                IF ~IsFinite(grad) THEN "vviFPM" :> Null
                ELSE IF IsFinite(tasNMhr)
                     THEN "vviFPM" :> FMul(grad, FDiv(tasNMhr, Int2Num(60)))
                ELSE IF IsFinite(tasNMmin) THEN "vviFPM" :> FMul(grad, tasNMmin)
                ELSE "vviFPM" :> Null)))

vvi(v) ==
    Bind(toNum(Get(v, "gradientFtPerNM"), DefaultFallback), LAMBDA grad :
        Bind2(toNum(Get(v, "tasNMmin"), Null), toNum(Get(v, "tasNMhr"), Null),
              LAMBDA tasNMmin, tasNMhr :
            Guarded({grad, tasNMmin, tasNMhr},
                IF ~IsFinite(grad) THEN "vviFPM" :> Null
                ELSE IF IsFinite(tasNMmin) THEN "vviFPM" :> FMul(grad, tasNMmin)
                ELSE IF IsFinite(tasNMhr)
                     THEN "vviFPM" :> FMul(grad, FDiv(tasNMhr, Int2Num(60)))
                ELSE "vviFPM" :> Null)))

turnRadius(v) ==
    "rNM" :> turnRadiusNM(N(v, "tasKt"), N(v, "bankDeg"))

leadRadial(v) ==
    Bind(FDiv(FMul(Int2Num(60), N(v, "rNM")), MathMax(Eps, N(v, "arcingDME"))),
         LAMBDA lead :
        ("leadDegMinus" :> FSub(N(v, "interceptRadial"), lead))
        @@ ("leadDegPlus" :> FAdd(N(v, "interceptRadial"), lead)))

\* leadDME reading keys of a namespace of its own
leadDMENamespaced(v) ==
    ("inbound" :> FSub(N(v, "leadDME.arcingDME"), N(v, "leadDME.rNM")))
    @@ ("outbound" :> FAdd(N(v, "leadDME.arcingDME"), N(v, "leadDME.rNM")))

leadDME(v) ==
    ("inbound" :> FSub(N(v, "arcingDME"), N(v, "rNM")))
    @@ ("outbound" :> FAdd(N(v, "arcingDME"), N(v, "rNM")))

arcDistance(v) ==
    "arcNM" :>
        FMul(FDiv(MathAbs(FSub(N(v, "startRadial"), N(v, "endRadial"))),
                  Int2Num(60)),
             N(v, "arcingDME"))

turningDistance(v) ==
    "turnDistNM" :>
        FMul(FMul(FMul(FDiv(N(v, "degrees"), Int2Num(360)), Int2Num(2)), Pi),
             N(v, "rNM"))

loss90(v) ==
    Bind(N(v, "rNM"), LAMBDA r :
        LET arc  == FMul(FMul(FMul(FDiv(Int2Num(90), Int2Num(360)), Int2Num(2)), Pi), r)
            loss == FSub(FMul(Int2Num(2), r), arc)
        IN  "lossNM" :> loss)

\* climbDescend reading gradient's altitude key instead of its own
climbDescendForeignKey(v) ==
    "nm" :>
        FDiv(N(v, "altitudeChangeFt"),
             MathMax(Eps, N(v, "climbGradientFtPerNM")))

climbDescend(v) ==
    "nm" :>
        FDiv(N(v, "altitudeToClimbFt"),
             MathMax(Eps, N(v, "climbGradientFtPerNM")))

vdp(v) ==
    Bind(ftPerNMFromDegrees(N(v, "slopeDeg")), LAMBDA ftPerNM :
        ("vdpNM" :> FDiv(N(v, "hatFt"), MathMax(Eps, ftPerNM)))
        @@ ("ftPerNM" :> ftPerNM))

\* timeOut multiplying by the custom minutes even when they are 0
timeOutCustomAlways(v) ==
    Bind2(N(v, "groundSpeedKt"), N(v, "customMinutes"), LAMBDA gs, custom :
        Bind(FDiv(gs, Int2Num(60)), LAMBDA nmPerMin :
            ("dist3min" :> FMul(nmPerMin, Int2Num(3)))
            @@ ("dist2min" :> FMul(nmPerMin, Int2Num(2)))
            @@ ("dist1min" :> FMul(nmPerMin, Int2Num(1)))
            @@ ("distCustom" :> FMul(nmPerMin, custom))))

timeOut(v) ==
    Bind2(N(v, "groundSpeedKt"), N(v, "customMinutes"), LAMBDA gs, custom :
        Bind(FDiv(gs, Int2Num(60)), LAMBDA nmPerMin :
            LET threeMin == FMul(nmPerMin, Int2Num(3))
                twoMin   == FMul(nmPerMin, Int2Num(2))
                oneMin   == FMul(nmPerMin, Int2Num(1))
            IN  Guarded({gs, custom},
                    ("dist3min" :> threeMin) @@ ("dist2min" :> twoMin)
                    @@ ("dist1min" :> oneMin)
                    @@ ("distCustom" :>
                            IF Truthy(custom) THEN FMul(nmPerMin, custom)
                            ELSE Null))))

\* calc.compute(v) of the catalogue entry with id c
Compute(c, v) ==
    CASE c = "gradient"        -> gradient(v)
      [] c = "pitch"           -> pitch(v)
      [] c = "ias2tas"         -> ias2tas(v)
      [] c = "avgTas"          -> avgTas(v)
      [] c = "vvi"             -> vvi(v)
      [] c = "turnRadius"      -> turnRadius(v)
      [] c = "leadRadial"      -> leadRadial(v)
      [] c = "leadDME"         -> leadDME(v)
      [] c = "arcDistance"     -> arcDistance(v)
      [] c = "turningDistance" -> turningDistance(v)
      [] c = "loss90"          -> loss90(v)
      [] c = "climbDescend"    -> climbDescend(v)
      [] c = "vdp"             -> vdp(v)
      [] c = "timeOut"         -> timeOut(v)

----------------------------------------------------------------------------
\* Scenario: one call of toNum on every short string

NotYet == [kind |-> "none", m |-> 0, e |-> 0]

Alphabet == {"2", "0", ",", ".", "-", "a", "e", " "}

RECURSIVE StringsUpTo(_)
StringsUpTo(n) ==
    IF n = 0 THEN {<<>>}
    ELSE LET S == StringsUpTo(n - 1)
         IN  S \cup {Append(s, c) : s \in {t \in S : Len(t) = n - 1}, c \in Alphabet}

Str2000   == <<"2", ",", "0", "0", "0">>
Str1000   == <<"1", "0", "0", "0">>
StrNaN    == <<"N", "a", "N">>
StrAbc    == <<"a", "b", "c">>
StrNegInf == <<"-">> \o InfinityChars
Str1e308  == <<"1", "e", "3", "0", "8">>
Str1e309  == <<"1", "e", "3", "0", "9">>
Str12abc  == <<"1", "2", "a", "b", "c">>
Str1c234c567 == <<"1", ",", "2", "3", "4", ",", "5", "6", "7">>

SpecialStrings ==
    {Str2000, Str1000, StrNaN, StrAbc, InfinityChars, StrNegInf, Str1e308,
     Str1e309, Str12abc, Str1c234c567}

ParserInputs == StringsUpTo(MaxLen) \cup SpecialStrings \cup {Undefined}
Fallbacks == {DefaultFallback, Null, Int2Num(7)}

IdleStore == /\ values = <<>>
             /\ out = <<>>
             /\ pending = FALSE
             /\ shown = <<>>
IdleParse == /\ arg = <<>>
             /\ fb = DefaultFallback
             /\ parsed = NotYet
IdleCalc  == /\ calcId = "none"
             /\ inputs = <<>>
             /\ result = <<>>

InitToNum ==
    /\ arg \in ParserInputs
    /\ fb \in Fallbacks
    /\ parsed = NotYet
    /\ phase = "input"
    /\ IdleStore
    /\ IdleCalc

CallToNum ==
    /\ phase = "input"
    /\ parsed' = toNum(arg, fb)
    /\ phase' = "returned"
    /\ UNCHANGED <<arg, fb, shown, storeVars, calcVars>>

NextToNum == CallToNum

SpecToNum == InitToNum /\ [][NextToNum]_vars

----------------------------------------------------------------------------
\* The screen: the input value store, its two handlers and the render pass

Str0   == <<"0">>
Str2   == <<"2">>
Str30  == <<"3", "0">>

\* what the user types into a field
TypedStrings == {<<>>, Str2000, StrAbc}

\* useState initialiser: every declared field at its default, else ''
InitialValues == [k \in Keys |-> FieldDefault(k)]

\* the object {}
EmptyStore == [k \in {} |-> <<>>]

\* ({ ...p, [k]: val })
Put(p, k, val) == [x \in DOMAIN p \cup {k} |-> IF x = k THEN val ELSE p[x]]

\* the render pass: calc.compute(values) for every entry of CALCS
RenderAll(v) == [c \in CalcIds |-> Compute(c, v)]

\* the one-character string holding U+2014, the em dash shown for an output
\* that is not a finite number; the character is written by its name
EmDash == <<"EM DASH">>

\* the decimal digits of the integer nearest to |x| * 1000, ties upward
ThousandthsDigits(x) ==
    IF x.m = 0 THEN <<"0">>
    ELSE IF x.e + 3 >= 0 THEN DigitsOf(Abs(x.m)) \o Zeros(x.e + 3)
    ELSE Bind(0 - (x.e + 3), LAMBDA k :
             IF k > NumDigits(Abs(x.m)) THEN <<"0">>
             ELSE DigitsOf((Abs(x.m) + (10 ^ k) \div 2) \div (10 ^ k)))

\* Number.prototype.toFixed(3): Number::toString from 1e21 upward, else the
\* thousandths with a point before the last three digits
toFixed3(x) ==
    IF NumDigits(Abs(x.m)) + x.e > 21 THEN NumberToString(x)
    ELSE Bind(ThousandthsDigits(x), LAMBDA n :
             Bind(Zeros(4 - Len(n)) \o n, LAMBDA m :
                 (IF x.m < 0 THEN <<"-">> ELSE <<>>)
                 \o SubSeq(m, 1, Len(m) - 3) \o <<".">>
                 \o SubSeq(m, Len(m) - 2, Len(m))))

\* the Pill of one output: toFixed(3) of a finite number, else the dash
PillText(x) == IF IsFinite(x) THEN toFixed3(x) ELSE EmDash

\* the pills of one formula's outputs
ShowOutputs(r) == [o \in DOMAIN r |-> PillText(r[o])]

\* the pills of the whole screen
ShowAll(o) == [c \in DOMAIN o |-> ShowOutputs(o[c])]

\* keys whose content the user has changed since the store was last built
Edited(v) ==
    IF DOMAIN v = Keys THEN {k \in Keys : v[k] # InitialValues[k]} ELSE DOMAIN v

Init ==
    /\ values = InitialValues
    /\ out = RenderAll(InitialValues)
    /\ shown = ShowAll(out)
    /\ pending = FALSE
    /\ phase = "screen"
    /\ IdleParse
    /\ IdleCalc

\* onChange of a field's NumInput: setValues((p) => ({ ...p, [k]: val }))
setField(k, val) ==
    /\ ~pending
    /\ Cardinality(Edited(Put(values, k, val))) <= MaxFilled
    /\ values' = Put(values, k, val)
    /\ pending' = TRUE
    /\ UNCHANGED <<out, shown, phase, parseVars, calcVars>>

\* onPress of "Clear All Inputs": setValues({})
ClearAll ==
    /\ ~pending
    /\ values' = EmptyStore
    /\ pending' = TRUE
    /\ UNCHANGED <<out, shown, phase, parseVars, calcVars>>

\* a render pass that stores turnRadius's rNM output under the input key rNM
RenderWriteBack ==
    /\ pending
    /\ out' = RenderAll(values)
    /\ shown' = ShowAll(out')
    /\ values' = Put(values, "rNM", NumberToString(turnRadius(values)["rNM"]))
    /\ pending' = FALSE
    /\ UNCHANGED <<phase, parseVars, calcVars>>

\* the component function runs again after a state update
Render ==
    /\ pending
    /\ out' = RenderAll(values)
    /\ shown' = ShowAll(out')
    /\ pending' = FALSE
    /\ UNCHANGED <<values, phase, parseVars, calcVars>>

Next ==
    \/ \E k \in Keys, val \in TypedStrings : setField(k, val)
    \/ ClearAll
    \/ Render

Spec == Init /\ [][Next]_vars

----------------------------------------------------------------------------
\* Scenario: one formula evaluated on one store

Str120 == <<"1", "2", "0">>
Str150 == <<"1", "5", "0">>
Str180 == <<"1", "8", "0">>
Str300 == <<"3", "0", "0">>
StrNeg3 == <<"-", "3">>
Str1eNeg10 == <<"1", "e", "-", "1", "0">>

CalcStrings ==
    {<<>>, Str0, Str2, Str30, Str120, Str150, Str180, Str300, Str1000,
     Str2000, StrAbc, StrNeg3, Str1eNeg10, Str1e308}

\* every store over the given keys, a key being absent or holding a string
StoresOver(ks) ==
    UNION {[sub -> CalcStrings] : sub \in SUBSET ks}

InitCompute ==
    /\ calcId \in CalcIds
    /\ inputs \in StoresOver(Fields(calcId))
    /\ result = <<>>
    /\ phase = "input"
    /\ IdleStore
    /\ IdleParse

CallCompute ==
    /\ phase = "input"
    /\ result' = Compute(calcId, inputs)
    /\ shown' = ShowOutputs(result')
    /\ phase' = "computed"
    /\ UNCHANGED <<calcId, inputs, storeVars, parseVars>>

NextCompute == CallCompute

SpecCompute == InitCompute /\ [][NextCompute]_vars

----------------------------------------------------------------------------
\* Scenario: one formula evaluated, one key of the store retyped, the formula
\* evaluated again

AgreeStrings == {<<>>, Str2, StrAbc}

InitAgree ==
    /\ calcId \in CalcIds
    /\ inputs \in UNION {[sub -> AgreeStrings] : sub \in SUBSET Fields(calcId)}
    /\ result = <<>>
    /\ phase = "input"
    /\ IdleStore
    /\ IdleParse

\* setField(k, val) on the store, then calc.compute on the new store
Retype(k, val) ==
    /\ phase = "computed"
    /\ inputs' = Put(inputs, k, val)
    /\ result' = Compute(calcId, inputs')
    /\ shown' = ShowOutputs(result')
    /\ phase' = "recomputed"
    /\ UNCHANGED <<calcId, storeVars, parseVars>>

NextAgree ==
    \/ CallCompute
    \/ \E k \in Keys, val \in AgreeStrings : Retype(k, val)

SpecAgree == InitAgree /\ [][NextAgree]_vars

----------------------------------------------------------------------------
\* Properties

NumberOrNull == {"num", "nan", "pinf", "ninf", "null"}

\* C1: whatever setField and clear-all have done to the store, every formula's
\* compute returns a mapping over exactly its declared output keys, each
\* holding a number or null; no call raises.
C1_ComputeNeverRaises ==
    \A c \in CalcIds :
        /\ DOMAIN out[c] = Outputs(c)
        /\ \A o \in Outputs(c) : out[c][o].kind \in NumberOrNull

\* a cleared store with a non-numeric string typed into it, rendered
C1_Witness ==
    /\ ~pending
    /\ DOMAIN values # Keys
    /\ \E k \in DOMAIN values : values[k] = StrAbc

NoDigit(str) == \A i \in 1..Len(str) : ~(str[i] \in Digits)

\* C2: toNum returns a finite number or the fallback; commas do not matter;
\* a string without any digit (undefined, '', letters, 'NaN', 'Infinity')
\* gives the fallback; '2,000' gives 2000, '2,0' gives 20, '-2' gives -2,
\* '.2' gives 0.2, '2e2' gives 200; gradient(1000, '2,000') is 0.5.
C2_ToNumContract ==
    phase = "returned" =>
        /\ IsFinite(parsed) \/ parsed = fb
        /\ parsed = toNum(StripCommas(StringOrEmpty(arg)), fb)
        /\ NoDigit(StringOrEmpty(arg)) => parsed = fb
        /\ arg \in {Undefined, <<>>, StrAbc, StrNaN, InfinityChars, StrNegInf,
                    Str1e309} => parsed = fb
        /\ arg = Str2000 =>
              /\ parsed = MkNum(2000, 0)
              /\ gradient(("altitudeChangeFt" :> Str1000) @@ ("distanceNM" :> arg))
                     ["gradientFtPerNM"] = MkNum(5, 0 - 1)
        /\ arg = <<"2", ",", "0">> => parsed = MkNum(20, 0)
        /\ arg = <<"-", "2">> => parsed = MkNum(0 - 2, 0)
        /\ arg = <<".", "2">> => parsed = MkNum(2, 0 - 1)
        /\ arg = <<"2", "e", "2">> => parsed = MkNum(200, 0)
        /\ arg = Str12abc => parsed = MkNum(12, 0)

\* toNum has returned 2000 for '2,000'
C2_Witness ==
    /\ phase = "returned"
    /\ arg = Str2000
    /\ parsed = MkNum(2000, 0)

\* the decimal exponent of every input of formula c is at most MaxInputExp
BoundedInputs(c, v) ==
    \A k \in Fields(c) :
        LET n == N(v, k)
        IN  n.m = 0 \/ n.e + NumDigits(Abs(n.m)) - 1 <= MaxInputExp

\* the divisor after Math.max(1e-9, d)
Guard(d) == IF FLess(d, Eps) THEN Eps ELSE d

\* C3: gradient, leadRadial, climbDescend and vdp divide by 1e-9 whenever the
\* divisor is below 1e-9, and by the divisor otherwise; on bounded inputs
\* all their outputs are finite numbers.
C3_EpsilonDivisor ==
    (phase = "computed" /\ BoundedInputs(calcId, inputs)) =>
        /\ calcId \in {"gradient", "leadRadial", "climbDescend", "vdp"} =>
              \A o \in Outputs(calcId) : IsFinite(result[o])
        /\ calcId = "gradient" =>
              result["gradientFtPerNM"] =
                  FDiv(N(inputs, "altitudeChangeFt"), Guard(N(inputs, "distanceNM")))
        /\ calcId = "climbDescend" =>
              result["nm"] =
                  FDiv(N(inputs, "altitudeToClimbFt"),
                       Guard(N(inputs, "climbGradientFtPerNM")))
        /\ calcId = "vdp" =>
              result["vdpNM"] = FDiv(N(inputs, "hatFt"), Guard(result["ftPerNM"]))
        /\ calcId = "leadRadial" =>
              LET lead == FDiv(FMul(Int2Num(60), N(inputs, "rNM")),
                               Guard(N(inputs, "arcingDME")))
              IN  /\ result["leadDegMinus"] = FSub(N(inputs, "interceptRadial"), lead)
                  /\ result["leadDegPlus"] = FAdd(N(inputs, "interceptRadial"), lead)

\* gradient of 1000 ft over a distance of 0 is 1000 / 1e-9
C3_Witness ==
    /\ phase = "computed"
    /\ calcId = "gradient"
    /\ Get(inputs, "altitudeChangeFt") = Str1000
    /\ Get(inputs, "distanceNM") = Str0
    /\ result["gradientFtPerNM"] = MkNum(1, 12)

\* C4: vvi is gradient * tasNMmin when tasNMmin parses to a finite number,
\* else gradient * (tasNMhr / 60) when tasNMhr does, else null;
\* 300 with tasNMmin 2 is 600, 300 with only tasNMhr 120 is 600.
C4_VviTasSelection ==
    (phase = "computed" /\ calcId = "vvi") =>
        LET g  == N(inputs, "gradientFtPerNM")
            mn == toNum(Get(inputs, "tasNMmin"), Null)
            hr == toNum(Get(inputs, "tasNMhr"), Null)
        IN  /\ mn # Null => result["vviFPM"] = FMul(g, mn)
            /\ (mn = Null /\ hr # Null) =>
                   result["vviFPM"] = FMul(g, FDiv(hr, Int2Num(60)))
            /\ (mn = Null /\ hr = Null) => result["vviFPM"] = Null
            /\ (Get(inputs, "gradientFtPerNM") = Str300
                    /\ Get(inputs, "tasNMmin") = Str2) =>
                   result["vviFPM"] = MkNum(600, 0)
            /\ (Get(inputs, "gradientFtPerNM") = Str300
                    /\ Get(inputs, "tasNMmin") \in {Undefined, <<>>}
                    /\ Get(inputs, "tasNMhr") = Str120) =>
                   result["vviFPM"] = MkNum(600, 0)

\* gradient 300, tasNMmin 2 and tasNMhr 30 give 600: the hourly TAS is ignored
C4_Witness ==
    /\ phase = "computed"
    /\ calcId = "vvi"
    /\ Get(inputs, "gradientFtPerNM") = Str300
    /\ Get(inputs, "tasNMmin") = Str2
    /\ Get(inputs, "tasNMhr") = Str30
    /\ result["vviFPM"] = MkNum(600, 0)

\* C5: vvi returns null whenever its gradient input does not parse to a
\* finite number, even when a TAS input is supplied.
C5_NullWithoutGradient ==
    (phase = "computed" /\ calcId = "vvi"
        /\ toNum(Get(inputs, "gradientFtPerNM"), Null) = Null) =>
        result["vviFPM"] = Null

\* C6: clear-all leaves the store equal to the initial store, bankDeg at '30'.
C6_ClearRestoresInitialStore ==
    [][ClearAll => values' = InitialValues]_vars

AllEmptyStore == [k \in Keys |-> <<>>]

\* C7: once a clear-all has been rendered, every output is what the formula
\* gives on the all-empty store: null for vviFPM and distCustom, 0 otherwise.
C7_OutputsAfterClear ==
    (~pending /\ values = EmptyStore) =>
        \A c \in CalcIds :
            /\ out[c] = Compute(c, AllEmptyStore)
            /\ \A o \in Outputs(c) :
                   out[c][o] = IF o \in {"vviFPM", "distCustom"} THEN Null ELSE Zero

\* the cleared store has been rendered
C7_Witness ==
    /\ ~pending
    /\ values = EmptyStore
    /\ out["turnRadius"]["rNM"] = Zero

\* C8: retyping a key leaves the outputs of every formula whose declared keys
\* keep their values; two stores that agree on a formula's declared keys give
\* equal outputs.
C8_OnlyDeclaredKeysMatter ==
    [][(phase = "computed" /\ phase' = "recomputed"
            /\ \A k \in Fields(calcId) : Get(inputs', k) = Get(inputs, k))
        => result' = result]_vars

\* a formula recomputed on a store that holds a key it does not declare
C8_Witness ==
    /\ phase = "recomputed"
    /\ \E k \in DOMAIN inputs : ~(k \in Fields(calcId)) /\ inputs[k] = Str2

\* the outputs of the formulas sharing rNM and arcingDME, from store v
SharedReads(v, o) ==
    LET r == N(v, "rNM")
        d == N(v, "arcingDME")
        lead == FDiv(FMul(Int2Num(60), r), Guard(d))
    IN  /\ o["leadDME"]["inbound"] = FSub(d, r)
        /\ o["leadDME"]["outbound"] = FAdd(d, r)
        /\ o["leadRadial"]["leadDegPlus"] = FAdd(N(v, "interceptRadial"), lead)
        /\ o["leadRadial"]["leadDegMinus"] = FSub(N(v, "interceptRadial"), lead)
        /\ o["loss90"]["lossNM"] =
               FSub(FMul(Int2Num(2), r),
                    FMul(FMul(FMul(FDiv(Int2Num(90), Int2Num(360)), Int2Num(2)), Pi), r))
        /\ o["turningDistance"]["turnDistNM"] =
               FMul(FMul(FMul(FDiv(N(v, "degrees"), Int2Num(360)), Int2Num(2)), Pi), r)
        /\ o["arcDistance"]["arcNM"] =
               FMul(FDiv(MathAbs(FSub(N(v, "startRadial"), N(v, "endRadial"))),
                         Int2Num(60)), d)

\* C9: a setField step sets one key to the typed string and keeps every other
\* key; after the next render every formula declaring rNM or arcingDME has
\* used the one value the store holds for it.
C9_FlatNamespace ==
    [][/\ (values' # values /\ values' # EmptyStore) =>
              \E k \in Keys :
                  /\ DOMAIN values' = DOMAIN values \cup {k}
                  /\ values'[k] \in TypedStrings
                  /\ \A x \in DOMAIN values \ {k} : values'[x] = values[x]
       /\ ~pending' => SharedReads(values', out')]_vars

\* rNM was typed as 2,000 and rendered: leadDME and leadRadial both used 2000
C9_Witness ==
    /\ ~pending
    /\ Get(values, "rNM") = Str2000
    /\ out["leadDME"]["outbound"] = MkNum(2000, 0)
    /\ out["leadRadial"]["leadDegPlus"] = MkNum(12, 13)

\* C10: a render pass leaves the store as it is; the store changes only in a
\* handler step (setField or clear-all), so an output named like an input key
\* (rNM, gradientFtPerNM, tasNMmin) never becomes that input's value.
C10_RenderReadsOnly ==
    [][/\ (pending /\ ~pending') => values' = values
       /\ values' # values => (~pending /\ pending')]_vars

\* turnRadius has produced a non-zero rNM while the input key rNM is still ''
C10_Witness ==
    /\ ~pending
    /\ Get(values, "tasKt") = Str2000
    /\ Get(values, "rNM") = <<>>
    /\ out["turnRadius"]["rNM"] # Zero
    /\ out["loss90"]["lossNM"] = Zero

\* optional minus sign, one or more digits, a point, exactly three digits
IsFixed3(t) ==
    LET u == IF Len(t) > 0 /\ Head(t) = "-" THEN Tail(t) ELSE t
    IN  /\ Len(u) >= 5
        /\ u[Len(u) - 3] = "."
        /\ \A i \in 1..Len(u) : i # Len(u) - 3 => u[i] \in Digits

\* C11: after a formula is evaluated and its outputs are displayed, the pill
\* of every finite output holds a fixed three-decimal text (0.000 for zero)
\* and the pill of every null or non-finite output holds the em dash; no
\* pill holds any other text.
C11_PillIsFixed3OrDash ==
    phase = "computed" =>
        \A o \in Outputs(calcId) :
            IF IsFinite(result[o])
            THEN /\ IsFixed3(shown[o])
                 /\ result[o] = Zero => shown[o] = <<"0", ".", "0", "0", "0">>
            ELSE shown[o] = EmDash

\* the string without its commas
CommaFree(str) == SelectSeq(str, LAMBDA c : c # ",")

\* a decimal number begins the string: blanks, an optional sign, then a digit
\* or a point followed by a digit
HasNumberPrefix(str) ==
    LET t == TrimLeft(str)
        r == IF Len(t) > 0 /\ Head(t) \in {"-", "+"} THEN Tail(t) ELSE t
    IN  \/ Len(r) >= 1 /\ r[1] \in Digits
        \/ Len(r) >= 2 /\ r[1] = "." /\ r[2] \in Digits

\* non-numeric: nothing numeric to read even with the commas taken out
NonNumeric(str) == ~HasNumberPrefix(CommaFree(str))

\* digits grouped by commas, such as 2,000 or 1,234,567
CommaGrouped(str) ==
    /\ Len(str) >= 3
    /\ str[1] \in Digits
    /\ str[Len(str)] \in Digits
    /\ \A i \in 1..Len(str) : str[i] \in Digits \cup {","}
    /\ \E i \in 1..Len(str) : str[i] = ","

RECURSIVE IntOfDigits(_)
\* the integer written by a string of digits
IntOfDigits(ds) ==
    IF ds = <<>> THEN 0
    ELSE 10 * IntOfDigits(SubSeq(ds, 1, Len(ds) - 1)) + DigitVal(ds[Len(ds)])

\* C12 as stated: for every non-numeric, empty or comma-grouped string toNum
\* returns the fallback and does not raise.
C12_FallbackForCommaGrouped ==
    phase = "returned" =>
        LET str == StringOrEmpty(arg)
        IN  (str = <<>> \/ NonNumeric(str) \/ CommaGrouped(str)) =>
                (parsed = fb /\ parsed.kind # "throw")

\* C12, amended: toNum never raises; for every empty or non-numeric string it
\* returns the fallback it was given, and for a comma-grouped number it
\* returns the number written by the digits with the commas removed.
C12_FallbackOrCommaFreeNumber ==
    phase = "returned" =>
        LET str == StringOrEmpty(arg)
        IN  /\ parsed.kind # "throw"
            /\ (str = <<>> \/ NonNumeric(str)) => parsed = fb
            /\ CommaGrouped(str) => parsed = MkNum(IntOfDigits(CommaFree(str)), 0)

\* toNum with fallback null has returned 20 for '2,0' and, in another call,
\* null for 'abc'
C12_Witness ==
    /\ phase = "returned"
    /\ fb = Null
    /\ \/ arg = <<"2", ",", "0">> /\ parsed = MkNum(20, 0)
       \/ arg = Str1c234c567 /\ parsed = MkNum(1234567, 0)

\* (150 x 1.68781)^2 / (32.174 x tan(30 deg)) / 6076.12, tan(30 deg) = 0.5774
Radius150At30 ==
    Bind(FMul(Int2Num(150), MkNum(168781, 0 - 5)), LAMBDA V :
        FDiv(FDiv(FMul(V, V), FMul(MkNum(32174, 0 - 3), MkNum(5774, 0 - 4))),
             MkNum(607612, 0 - 2)))

\* turnRadius has been evaluated on tasKt = '150', bankDeg = '30'
Computed150At30 ==
    /\ phase = "computed"
    /\ calcId = "turnRadius"
    /\ Get(inputs, "tasKt") = Str150
    /\ Get(inputs, "bankDeg") = Str30

\* C13 as stated: turnRadius(150, 30) returns
\* (150 x 1.68781)^2 / (32.174 x tan(30 deg)) / 6076.12, and that value lies
\* between 1.8 and 1.9 NM.
C13_RadiusBetween1p8And1p9 ==
    Computed150At30 =>
        /\ result["rNM"] = Radius150At30
        /\ ~FLess(result["rNM"], MkNum(18, 0 - 1))
        /\ ~FLess(MkNum(19, 0 - 1), result["rNM"])

\* C13, amended: turnRadius(150, 30) returns
\* (150 x 1.68781)^2 / (32.174 x tan(30 deg)) / 6076.12, and that value lies
\* between 0.5 and 0.6 NM.
C13_RadiusBetween0p5And0p6 ==
    Computed150At30 =>
        /\ result["rNM"] = Radius150At30
        /\ FLess(MkNum(5, 0 - 1), result["rNM"])
        /\ FLess(result["rNM"], MkNum(6, 0 - 1))

\* turnRadius(150, 30) has returned a finite radius
C13_Witness ==
    /\ Computed150At30
    /\ IsFinite(result["rNM"])
    /\ shown["rNM"][1] = "0"

\* (tas x 1.68781)^2 / (32.174 x t) / 6076.12 for a tangent t
RadiusWithTan(tas, t) ==
    Bind(FMul(tas, MkNum(168781, 0 - 5)), LAMBDA V :
        FDiv(FDiv(FMul(V, V), FMul(MkNum(32174, 0 - 3), t)),
             MkNum(607612, 0 - 2)))

\* the radius the claim describes: tan(0.0001) for a bank that parses to 0,
\* the tangent of the bank angle itself otherwise
RadiusBySurrogateRule(v) ==
    Bind(N(v, "bankDeg"), LAMBDA bank :
        RadiusWithTan(N(v, "tasKt"),
                      IF bank = Zero THEN TanSurrogate
                      ELSE MathTanDeg(bank, DegToRad(bank))))

FiniteNonNegative(r) == IsFinite(r) /\ ~FLess(r, Zero)

\* C14 as stated: when bankDeg parses to 0 the radius is computed with 0.0001
\* rad in place of 0 and is a finite non-negative number (0 when TAS is 0),
\* never Infinity or NaN; for any other bank the angle itself is used.
C14_ZeroBankAlwaysFinite ==
    (phase = "computed" /\ calcId = "turnRadius") =>
        /\ result["rNM"] = RadiusBySurrogateRule(inputs)
        /\ N(inputs, "bankDeg") = Zero =>
              /\ FiniteNonNegative(result["rNM"])
              /\ N(inputs, "tasKt") = Zero => result["rNM"] = Zero

\* C14, amended: when bankDeg parses to 0 the radius is computed with 0.0001
\* rad in place of 0, and for a TAS of bounded magnitude it is a finite
\* non-negative number (0 when TAS is 0), never Infinity or NaN; for any
\* other bank the angle itself is used.
C14_ZeroBankFiniteOnBoundedTas ==
    (phase = "computed" /\ calcId = "turnRadius") =>
        /\ result["rNM"] = RadiusBySurrogateRule(inputs)
        /\ (N(inputs, "bankDeg") = Zero /\ BoundedInputs(calcId, inputs)) =>
              /\ FiniteNonNegative(result["rNM"])
              /\ N(inputs, "tasKt") = Zero => result["rNM"] = Zero

\* turnRadius on tasKt = '150' with bankDeg '0' has returned a positive
\* finite radius, larger than the one for a bank of 30 degrees
C14_Witness ==
    /\ phase = "computed"
    /\ calcId = "turnRadius"
    /\ Get(inputs, "tasKt") = Str150
    /\ Get(inputs, "bankDeg") = Str0
    /\ IsFinite(result["rNM"])
    /\ FLess(Int2Num(1000), result["rNM"])

\* (groundspeed / 60) x minutes
DistanceOut(v, minutes) == FMul(FDiv(N(v, "groundSpeedKt"), Int2Num(60)), minutes)

\* C15: timeOut returns dist3min, dist2min and dist1min equal to
\* (groundspeed / 60) x 3, 2 and 1 for every groundspeed; distCustom equals
\* (groundspeed / 60) x custom when customMinutes parses to a non-zero number
\* and is null exactly when customMinutes parses to 0, whatever the
\* groundspeed.
C15_TimeOutDistances ==
    (phase = "computed" /\ calcId = "timeOut") =>
        /\ result["dist3min"] = DistanceOut(inputs, Int2Num(3))
        /\ result["dist2min"] = DistanceOut(inputs, Int2Num(2))
        /\ result["dist1min"] = DistanceOut(inputs, Int2Num(1))
        /\ N(inputs, "customMinutes") # Zero =>
              result["distCustom"] = DistanceOut(inputs, N(inputs, "customMinutes"))
        /\ result["distCustom"] = Null <=> N(inputs, "customMinutes") = Zero

\* timeOut on groundspeed '120' and custom minutes '30' has returned 6, 4, 2
\* and 60 NM
C15_Witness ==
    /\ phase = "computed"
    /\ calcId = "timeOut"
    /\ Get(inputs, "groundSpeedKt") = Str120
    /\ Get(inputs, "customMinutes") = Str30
    /\ result["dist3min"] = Int2Num(6)
    /\ result["dist1min"] = Int2Num(2)
    /\ result["distCustom"] = Int2Num(60)

====
